---- MODULE Spec2Model ----
(***************************************************************************)
(* vite-plugin-node-red: the plugin object returned by nodeRedPlugin and   *)
(* its five hooks (config, transformIndexHtml, writeBundle, closeBundle),  *)
(* driven by the host build tool in one build run.                         *)
(*                                                                         *)
(* JavaScript values are modelled as follows.  Leaves (strings, booleans,  *)
(* undefined) are strings: "true", "false", "undefined", "" and ordinary   *)
(* text; Truthy is JavaScript's truthiness on them.  A value that is       *)
(* either a primitive or an object (packageJson, buildNodeJsFiles) is a    *)
(* record with a kind field.  Text that the code takes apart (bundle file  *)
(* names, markup) is a sequence of tokens, so that endsWith, replace,      *)
(* path.parse and the regular expression work on it as they do on the      *)
(* characters.                                                             *)
(***************************************************************************)
EXTENDS Integers, Sequences, FiniteSets, TLC

VARIABLES
    pc,                   \* where the build run is
    defaultOptions,       \* the module-level defaultOptions object
    pluginOptions,        \* the instance's pluginOptions (same object as above)
    referencePackageJson, \* the instance's referencePackageJson
    nodeJsFiles,          \* the instance's nodeJsFiles array
    outDir,               \* the instance's outDir
    scanned,              \* the nodes root that config read (environment)
    configResult,         \* what config returned or threw
    html,                 \* markups handed to / returned by transformIndexHtml
    bundle,               \* what the host handed to writeBundle (environment)
    packageFile,          \* <outDir>/package.json in the output directory
    pass2,                \* the second Vite build started by closeBundle
    passed,               \* the arguments of the latest nodeRedPlugin and config calls
    error                 \* the error that aborted the run, if any

vars == <<pc, defaultOptions, pluginOptions, referencePackageJson, nodeJsFiles,
          outDir, scanned, configResult, html, bundle, packageFile, pass2, passed,
          error>>

-----------------------------------------------------------------------------
(* Bounds of the model *)

\* how many unit names the nodes root may hold
MaxUnits == 3
\* how many entries an arbitrary bundle may hold
MaxAssets == 2
\* how many attributes an arbitrary markup may hold
MaxAttrs == 2
\* how many path segments an attribute's value may hold before its file name
MaxSegments == 3
\* how many times a markup may go through transformIndexHtml
MaxPasses == 2

-----------------------------------------------------------------------------
(* JavaScript leaves *)

Undefined == "undefined"

Truthy(v) == v \notin {Undefined, "false", ""}

Max(a, b) == IF a >= b THEN a ELSE b

-----------------------------------------------------------------------------
(* Options: VitePluginNodeRedOptions and the slice of Vite's UserConfig    *)
(* that closeBundle forces.                                                *)

\* a Partial<UserConfig> with nothing set; input <<>> is an absent input
EmptyUserConfig ==
    [configFile |-> Undefined, ssrTarget |-> Undefined, emptyOutDir |-> Undefined,
     buildSsr |-> Undefined, outDir |-> Undefined, input |-> <<>>,
     format |-> Undefined, preserveModules |-> Undefined,
     preserveModulesRoot |-> Undefined, sourcemap |-> Undefined]

OmittedPackageJson ==
    [kind |-> Undefined, path |-> Undefined, copyPackageName |-> Undefined,
     copyDependencies |-> Undefined]

FalsePackageJson == [OmittedPackageJson EXCEPT !.kind = "false"]

OmittedBuildNodeJsFiles == [kind |-> Undefined, cfg |-> EmptyUserConfig]

\* nodeRedPlugin() or nodeRedPlugin({}): every option omitted
NoOptions ==
    [nodesDirectory |-> Undefined, packageName |-> Undefined,
     packageJson |-> OmittedPackageJson, silent |-> Undefined,
     buildNodeJsFiles |-> OmittedBuildNodeJsFiles]

\* const defaultOptions = {...}
DefaultOptionsLiteral ==
    [nodesDirectory |-> "nodes", packageName |-> "",
     packageJson |-> [kind |-> "object", path |-> "package.json",
                      copyDependencies |-> "true", copyPackageName |-> "true"],
     silent |-> "false",
     buildNodeJsFiles |-> [kind |-> "true", cfg |-> EmptyUserConfig]]

-----------------------------------------------------------------------------
(* lodash.merge(object, source): recursive, mutates and returns object.    *)
(* A source value of undefined is skipped; a primitive is assigned; a      *)
(* plain object is merged into the destination object, or into a fresh {}  *)
(* when the destination value is not an object; an array is merged index   *)
(* by index into the destination array.                                    *)

MergeLeaf(objValue, srcValue) == IF srcValue = Undefined THEN objValue ELSE srcValue

MergeArray(objValue, srcValue) ==
    [i \in 1..Max(Len(objValue), Len(srcValue)) |->
        IF i <= Len(srcValue) THEN srcValue[i] ELSE objValue[i]]

MergeUserConfig(object, source) ==
    [configFile |-> MergeLeaf(object.configFile, source.configFile),
     ssrTarget |-> MergeLeaf(object.ssrTarget, source.ssrTarget),
     emptyOutDir |-> MergeLeaf(object.emptyOutDir, source.emptyOutDir),
     buildSsr |-> MergeLeaf(object.buildSsr, source.buildSsr),
     outDir |-> MergeLeaf(object.outDir, source.outDir),
     input |-> MergeArray(object.input, source.input),
     format |-> MergeLeaf(object.format, source.format),
     preserveModules |-> MergeLeaf(object.preserveModules, source.preserveModules),
     preserveModulesRoot |->
         MergeLeaf(object.preserveModulesRoot, source.preserveModulesRoot),
     sourcemap |-> MergeLeaf(object.sourcemap, source.sourcemap)]

MergePackageJson(object, source) ==
    CASE source.kind = Undefined -> object
      [] source.kind = "false" -> source
      [] OTHER ->
            IF object.kind = "object"
            THEN [kind |-> "object",
                  path |-> MergeLeaf(object.path, source.path),
                  copyPackageName |->
                      MergeLeaf(object.copyPackageName, source.copyPackageName),
                  copyDependencies |->
                      MergeLeaf(object.copyDependencies, source.copyDependencies)]
            ELSE source

MergeBuildNodeJsFiles(object, source) ==
    CASE source.kind = Undefined -> object
      [] source.kind \in {"true", "false"} -> source
      [] OTHER ->
            IF object.kind = "object"
            THEN [kind |-> "object", cfg |-> MergeUserConfig(object.cfg, source.cfg)]
            ELSE source

merge(object, source) ==
    [nodesDirectory |-> MergeLeaf(object.nodesDirectory, source.nodesDirectory),
     packageName |-> MergeLeaf(object.packageName, source.packageName),
     packageJson |-> MergePackageJson(object.packageJson, source.packageJson),
     silent |-> MergeLeaf(object.silent, source.silent),
     buildNodeJsFiles |->
         MergeBuildNodeJsFiles(object.buildNodeJsFiles, source.buildNodeJsFiles)]

-----------------------------------------------------------------------------
(* The reference package.json read by nodeRedPlugin.  A dependency map is  *)
(* either absent (has = FALSE) or a set of entries, possibly empty.        *)

NoMap == [has |-> FALSE, map |-> {}]

MapOf(entries) == [has |-> TRUE, map |-> entries]

\* referencePackageJson before any assignment: undefined
NoReference ==
    [loaded |-> FALSE, name |-> Undefined, dependencies |-> NoMap,
     devDependencies |-> NoMap]

\* a package.json that cannot be read or parsed
UnreadableFile == NoReference

ParsedFile(name, deps, devDeps) ==
    [loaded |-> TRUE, name |-> name, dependencies |-> deps, devDependencies |-> devDeps]

-----------------------------------------------------------------------------
(* The nodes root on disk, as fs.stat and fs.readdir show it.              *)

Exts == {"html", "ts", "js"}

UnitNames == <<"alpha", "beta", "gamma", "delta">>

UnitFile(subdir, ext) == [name |-> subdir, ext |-> ext]

\* path.join(nodesDir, subdir, file)
JoinPath(nodesDir, subdir, file) == [root |-> nodesDir, dir |-> subdir, file |-> file]

\* an entry of the nodes root: nothing, a plain file, or a directory holding
\* <name>.<ext> as a file for ext in files and as a directory for ext in dirs
Absent == [kind |-> "absent", files |-> {}, dirs |-> {}]
PlainFile == [kind |-> "file", files |-> {}, dirs |-> {}]
Dir(files, dirs) == [kind |-> "dir", files |-> files, dirs |-> dirs]

DirentOf(name, entry) ==
    [name |-> name,
     isDirectory |-> entry.kind = "dir",
     contents |-> {[file |-> UnitFile(name, e), isFile |-> TRUE] : e \in entry.files}
                  \cup {[file |-> UnitFile(name, e), isFile |-> FALSE] : e \in entry.dirs}]

RECURSIVE Dirents(_, _)
\* the dirents of the root whose entries are f[i], ..., f[n], in readdir order
Dirents(f, i) ==
    IF i > Len(f) THEN <<>>
    ELSE IF f[i].kind = "absent" THEN Dirents(f, i + 1)
    ELSE <<DirentOf(UnitNames[i], f[i])>> \o Dirents(f, i + 1)

MissingRoot == [kind |-> "missing", contents |-> <<>>]
FileRoot == [kind |-> "file", contents |-> <<>>]
DirRoot(f) == [kind |-> "dir", contents |-> Dirents(f, 1)]

-----------------------------------------------------------------------------
(* nodeRedPlugin(opt): merges opt into defaultOptions, reads the reference *)
(* package.json when packageJson is an object with a path, and returns the *)
(* plugin with an empty nodeJsFiles and an unset outDir.                   *)

ReadsReference(options) ==
    options.packageJson.kind = "object" /\ Truthy(options.packageJson.path)

\* what the calls were handed before any call was made
NoArguments == [opt |-> NoOptions, assetsDir |-> Undefined, command |-> "none"]

\* a call makes an instance: the first one, or a later one made while no
\* hook of the one before has run
nodeRedPlugin(opt, file) ==
    /\ pc \in {"new", "created"}
    /\ passed' = [passed EXCEPT !.opt = opt]
    /\ LET merged == merge(defaultOptions, opt)
       IN /\ defaultOptions' = merged
          /\ pluginOptions' = merged
          /\ IF ReadsReference(merged) /\ ~file.loaded
             THEN /\ pc' = "aborted"
                  /\ error' = "ReadError"
                  /\ referencePackageJson' = NoReference
             ELSE /\ pc' = "created"
                  /\ error' = error
                  /\ referencePackageJson' =
                         IF ReadsReference(merged) THEN file ELSE NoReference
    /\ nodeJsFiles' = <<>>
    /\ outDir' = Undefined
    /\ UNCHANGED <<scanned, configResult, html, bundle, packageFile, pass2>>

-----------------------------------------------------------------------------
(* config(config, {command})                                               *)

NoConfig == [kind |-> "none", input |-> <<>>, assetsDir |-> Undefined, warnings |-> {}]

Thrown(warnings) == [NoConfig EXCEPT !.kind = "throw", !.warnings = warnings]

\* contents.filter(dirent => dirent.isDirectory()), in order
Subdirs(contents) == SelectSeq(contents, LAMBDA dirent : dirent.isDirectory)

\* new Set(contents.filter(dirent => dirent.isFile()).map(dirent => dirent.name))
Files(dirent) == {e.file : e \in {x \in dirent.contents : x.isFile}}

\* the condition under which config warns "... Skipping."
MissingEither(dirent) ==
    \/ UnitFile(dirent.name, "html") \notin Files(dirent)
    \/ /\ UnitFile(dirent.name, "ts") \notin Files(dirent)
       /\ UnitFile(dirent.name, "js") \notin Files(dirent)

\* nodes after the loop: nodes[subdir] is assigned for every subdirectory
Nodes(nodesDir, subdirs) ==
    [d \in {subdirs[i].name : i \in 1..Len(subdirs)} |->
        JoinPath(nodesDir, d, UnitFile(d, "html"))]

\* what the loop pushes on nodeJsFiles: one path for every subdirectory
Pushed(nodesDir, subdirs) ==
    [i \in 1..Len(subdirs) |->
        IF UnitFile(subdirs[i].name, "ts") \in Files(subdirs[i])
        THEN JoinPath(nodesDir, subdirs[i].name, UnitFile(subdirs[i].name, "ts"))
        ELSE JoinPath(nodesDir, subdirs[i].name, UnitFile(subdirs[i].name, "js"))]

Warnings(subdirs) ==
    IF Truthy(pluginOptions.silent) THEN {}
    ELSE {subdirs[i].name : i \in {j \in 1..Len(subdirs) : MissingEither(subdirs[j])}}

Abort(err) == pc' = "aborted" /\ error' = err

\* the error config throws on these inputs, "none" when it returns
ConfigError(options, hostAssetsDir, command, root) ==
    CASE command = "serve" -> "ServeNotSupported"
      [] command # "serve" /\ ~Truthy(options.nodesDirectory) -> "none"
      [] command # "serve" /\ Truthy(options.nodesDirectory)
           /\ root.kind = "missing" -> "ENOENT"
      [] command # "serve" /\ Truthy(options.nodesDirectory)
           /\ root.kind = "file" -> "NotADirectory"
      [] command # "serve" /\ Truthy(options.nodesDirectory)
           /\ root.kind = "dir" /\ Len(Subdirs(root.contents)) = 0 -> "NoSubdirectories"
      [] OTHER ->
           IF /\ ~Truthy(options.silent)
              /\ Truthy(hostAssetsDir)
              /\ hostAssetsDir # "resources"
           THEN "AssetsDirConflict"
           ELSE "none"

config(hostAssetsDir, command, root) ==
    /\ pc = "created"
    /\ passed' = [passed EXCEPT !.assetsDir = hostAssetsDir, !.command = command]
    /\ scanned' = IF command # "serve" /\ Truthy(pluginOptions.nodesDirectory)
                  THEN root ELSE scanned
    /\ LET nodesDir == pluginOptions.nodesDirectory
           subdirs == Subdirs(root.contents)
           err == ConfigError(pluginOptions, hostAssetsDir, command, root)
       IN CASE err \notin {"none", "AssetsDirConflict"} ->
                 \* thrown before the loop over the subdirectories
                 /\ Abort(err)
                 /\ configResult' = Thrown({})
                 /\ UNCHANGED nodeJsFiles
            [] err = "none" /\ ~Truthy(nodesDir) ->
                 /\ pc' = "configured"
                 /\ configResult' = [NoConfig EXCEPT !.kind = "null"]
                 /\ UNCHANGED <<nodeJsFiles, error>>
            [] OTHER ->
                 /\ nodeJsFiles' = nodeJsFiles \o Pushed(nodesDir, subdirs)
                 /\ IF err = "AssetsDirConflict"
                    THEN /\ Abort(err)
                         /\ configResult' = Thrown(Warnings(subdirs))
                    ELSE /\ pc' = "configured"
                         /\ error' = error
                         /\ configResult' =
                                [kind |-> "config",
                                 input |-> Nodes(nodesDir, subdirs),
                                 assetsDir |-> "resources",
                                 warnings |-> Warnings(subdirs)]
    /\ UNCHANGED <<defaultOptions, pluginOptions, referencePackageJson, outDir,
                   html, bundle, packageFile, pass2>>

-----------------------------------------------------------------------------
(* transformIndexHtml(html).  Markup is a sequence of tokens: an attribute *)
(* opener (src=", href=" or another attribute's), "/", a path segment, a   *)
(* file name, the closing quote, or other text.                            *)

Quote == "\""

\* the text of a package name as tokens: the empty name is no text at all
NameTokens(name) == IF name = "" THEN <<>> ELSE <<name>>

\* const packageName = referencePackageJson ? referencePackageJson.name
\*                                          : pluginOptions.packageName
RewriterPackageName ==
    IF referencePackageJson.loaded THEN referencePackageJson.name
    ELSE pluginOptions.packageName

\* the regular expression (src|href)="\/resources\/ matches at the head of h
MatchesRe(h) ==
    /\ Len(h) >= 4
    /\ h[1] \in {"src=\"", "href=\""}
    /\ h[2] = "/"
    /\ h[3] = "resources"
    /\ h[4] = "/"

RECURSIVE Replace(_, _)
\* html.replace(re, `$1="/resources/${packageName}/`) with the g flag: every
\* match, left to right, the replacement text not scanned again
Replace(h, packageName) ==
    IF h = <<>> THEN <<>>
    ELSE IF MatchesRe(h)
    THEN <<h[1], "/", "resources", "/">> \o NameTokens(packageName) \o <<"/">>
         \o Replace(SubSeq(h, 5, Len(h)), packageName)
    ELSE <<h[1]>> \o Replace(Tail(h), packageName)

NoHtml == [passes |-> 0, in |-> <<>>, out |-> <<>>, packageName |-> Undefined]

transformIndexHtml(h) ==
    /\ pc = "configured"
    /\ html' = [passes |-> html.passes + 1,
                in |-> h,
                out |-> Replace(h, RewriterPackageName),
                packageName |-> RewriterPackageName]
    /\ UNCHANGED <<pc, defaultOptions, pluginOptions, referencePackageJson,
                   nodeJsFiles, outDir, scanned, configResult, passed, bundle,
                   packageFile, pass2, error>>

-----------------------------------------------------------------------------
(* writeBundle(outputOptions, bundle).  A bundle is a sequence of entries  *)
(* [type, fileName] in Object.entries order; a file name is a sequence of  *)
(* tokens: "/", an extension (".html", ".js", ".css") or other text.       *)

ExtTokens == {".html", ".js", ".css"}

\* fileName.endsWith(".html")
EndsWithHtml(fileName) == Len(fileName) >= 1 /\ fileName[Len(fileName)] = ".html"

\* the index of the last "/" of fileName, 0 when it has none
LastSlash(fileName) ==
    LET at == {i \in 1..Len(fileName) : fileName[i] = "/"}
    IN IF at = {} THEN 0 ELSE CHOOSE i \in at : \A j \in at : j <= i

\* path.parse(fileName).name: the base name without its last extension; a
\* base name that is only an extension keeps it (".html" has name ".html")
ParseName(fileName) ==
    LET base == SubSeq(fileName, LastSlash(fileName) + 1, Len(fileName))
    IN IF Len(base) >= 2 /\ base[Len(base)] \in ExtTokens
       THEN SubSeq(base, 1, Len(base) - 1)
       ELSE base

\* fileName.replace(".html", ".js"): a string pattern replaces the first
\* occurrence only
ReplaceHtml(fileName) ==
    LET at == {i \in 1..Len(fileName) : fileName[i] = ".html"}
    IN IF at = {} THEN fileName
       ELSE [fileName EXCEPT ![CHOOSE i \in at : \A j \in at : i <= j] = ".js"]

RECURSIVE NodeEntries(_, _)
\* pkg["node-red"].nodes after the loop over Object.entries(bundle), from nodes
NodeEntries(entries, nodes) ==
    IF entries = <<>> THEN nodes
    ELSE LET assetInfo == Head(entries)
         IN IF assetInfo.type = "asset" /\ EndsWithHtml(assetInfo.fileName)
            THEN NodeEntries(Tail(entries),
                     [k \in DOMAIN nodes \cup {ParseName(assetInfo.fileName)} |->
                         IF k = ParseName(assetInfo.fileName)
                         THEN ReplaceHtml(assetInfo.fileName)
                         ELSE nodes[k]])
            ELSE NodeEntries(Tail(entries), nodes)

NoFile == [dir |-> Undefined, base |-> Undefined]

\* before writeBundle is called
NoBundle ==
    [handed |-> FALSE, outputOptions |-> [dir |-> Undefined, file |-> NoFile],
     entries |-> <<>>]

\* path.dirname(outputOptions.file)
Dirname(file) == file.dir

\* outputOptions.dir || (outputOptions.file ? path.dirname(outputOptions.file) : "dist")
ResolveOutDir(outputOptions) ==
    IF Truthy(outputOptions.dir) THEN outputOptions.dir
    ELSE IF Truthy(outputOptions.file.base) THEN Dirname(outputOptions.file)
    ELSE "dist"

\* whether writeBundle throws "No package name provided and
\* packageJson.copyPackageName is false."
NoPackageName ==
    /\ referencePackageJson.loaded
    /\ ~Truthy(pluginOptions.packageJson.copyPackageName)
    /\ ~Truthy(pluginOptions.packageName)

PkgName ==
    IF referencePackageJson.loaded /\ Truthy(pluginOptions.packageJson.copyPackageName)
    THEN referencePackageJson.name
    ELSE pluginOptions.packageName

\* the map copied as it is, absent when the reference has none
CopiedAsIs(map) == map

\* referencePackageJson.dependencies || {}
OrEmpty(map) == IF map.has THEN map ELSE MapOf({})

CopiesDependencies ==
    referencePackageJson.loaded /\ Truthy(pluginOptions.packageJson.copyDependencies)

\* the pkg object that writeBundle serialises
Pkg(entries) ==
    [name |-> PkgName,
     version |-> "1.0.0",
     dependencies |->
         IF CopiesDependencies THEN OrEmpty(referencePackageJson.dependencies)
         ELSE NoMap,
     devDependencies |->
         IF CopiesDependencies THEN OrEmpty(referencePackageJson.devDependencies)
         ELSE NoMap,
     nodes |-> NodeEntries(entries, <<>>)]

NoPkg ==
    [name |-> Undefined, version |-> Undefined, dependencies |-> NoMap,
     devDependencies |-> NoMap, nodes |-> <<>>]

NoPackageFile == [state |-> "absent", dir |-> Undefined, pkg |-> NoPkg]

\* fs.writeFile started and not awaited
WriteFileNotAwaited == FALSE

\* writeBundle awaits fs.writeFile before it returns
AwaitsWriteFile == TRUE

writeBundle(outputOptions, entries) ==
    /\ pc = "configured"
    /\ bundle' = [handed |-> TRUE, outputOptions |-> outputOptions, entries |-> entries]
    /\ CASE pluginOptions.packageJson.kind = "false" ->
              /\ pc' = "written"
              /\ UNCHANGED <<outDir, packageFile, error>>
         [] pluginOptions.packageJson.kind # "false" /\ NoPackageName ->
              /\ Abort("NoPackageName")
              /\ UNCHANGED <<outDir, packageFile>>
         [] OTHER ->
              /\ outDir' = ResolveOutDir(outputOptions)
              /\ packageFile' = [state |-> "pending",
                                 dir |-> ResolveOutDir(outputOptions),
                                 pkg |-> Pkg(entries)]
              /\ pc' = IF AwaitsWriteFile THEN "writing" ELSE "written"
              /\ error' = error
    /\ UNCHANGED <<defaultOptions, pluginOptions, referencePackageJson, nodeJsFiles,
                   scanned, configResult, passed, html, pass2>>

\* fs.writeFile settles: the file is on disk and writeBundle returns, or the
\* write fails and writeBundle reports it with this.error, which throws
writeFileSettles(ok) ==
    /\ packageFile.state = "pending"
    /\ packageFile' = [packageFile EXCEPT !.state = IF ok THEN "written" ELSE "failed"]
    /\ IF pc = "writing"
       THEN IF ok THEN pc' = "written" /\ error' = error
            ELSE Abort("WriteError")
       ELSE UNCHANGED <<pc, error>>
    /\ UNCHANGED <<defaultOptions, pluginOptions, referencePackageJson, nodeJsFiles,
                   outDir, scanned, configResult, passed, html, bundle, pass2>>

-----------------------------------------------------------------------------
(* closeBundle()                                                           *)

\* path.resolve(path.join(pluginOptions.nodesDirectory, ".."))
ParentDir(nodesDirectory) ==
    CASE nodesDirectory = "nodes" -> "."
      [] nodesDirectory = "src/nodes" -> "src"
      [] OTHER -> ".."

\* const pluginViteConfig: InlineConfig = {...}
pluginViteConfig ==
    [configFile |-> "false", ssrTarget |-> "node", emptyOutDir |-> "false",
     buildSsr |-> "true", outDir |-> outDir, input |-> nodeJsFiles,
     format |-> "cjs", preserveModules |-> "true",
     preserveModulesRoot |-> ParentDir(pluginOptions.nodesDirectory),
     sourcemap |-> Undefined]

\* merge(typeof buildNodeJsFiles === "object" ? buildNodeJsFiles : {}, pluginViteConfig)
Pass2Config ==
    MergeUserConfig(
        IF pluginOptions.buildNodeJsFiles.kind = "object"
        THEN pluginOptions.buildNodeJsFiles.cfg
        ELSE EmptyUserConfig,
        pluginViteConfig)

\* if (pluginOptions.buildNodeJsFiles === false || nodeJsFiles.length < 1) return
SkipsPass2 == pluginOptions.buildNodeJsFiles.kind = "false" \/ Len(nodeJsFiles) < 1

NoPass2 == [state |-> "none", runs |-> 0, config |-> EmptyUserConfig]

closeBundle ==
    /\ pc = "written"
    /\ IF SkipsPass2
       THEN /\ pc' = "done"
            /\ UNCHANGED <<defaultOptions, pluginOptions, pass2>>
       ELSE /\ pc' = "pass2"
            /\ pass2' = [state |-> "running", runs |-> pass2.runs + 1,
                         config |-> Pass2Config]
            \* merge mutates its first argument: the user's object, which
            \* pluginOptions (and defaultOptions) hold
            /\ LET mutated ==
                       IF pluginOptions.buildNodeJsFiles.kind = "object"
                       THEN [pluginOptions EXCEPT !.buildNodeJsFiles.cfg = Pass2Config]
                       ELSE pluginOptions
               IN pluginOptions' = mutated /\ defaultOptions' = mutated
    /\ UNCHANGED <<referencePackageJson, nodeJsFiles, outDir, scanned,
                   configResult, passed,
                   html, bundle, packageFile, error>>

\* await viteBuild(...) settles: pass 2 returned and closeBundle returns, or
\* pass 2 failed and closeBundle rejects
viteBuildSettles(ok) ==
    /\ pc = "pass2"
    /\ pass2' = [pass2 EXCEPT !.state = IF ok THEN "returned" ELSE "failed"]
    /\ IF ok THEN pc' = "done" /\ error' = error ELSE Abort("Pass2Failed")
    /\ UNCHANGED <<defaultOptions, pluginOptions, referencePackageJson, nodeJsFiles,
                   outDir, scanned, configResult, passed, html, bundle,
                   packageFile>>

-----------------------------------------------------------------------------
(* The state after the module is loaded and before nodeRedPlugin is called *)

Init ==
    /\ pc = "new"
    /\ defaultOptions = DefaultOptionsLiteral
    /\ pluginOptions = DefaultOptionsLiteral
    /\ referencePackageJson = NoReference
    /\ nodeJsFiles = <<>>
    /\ outDir = Undefined
    /\ scanned = MissingRoot
    /\ configResult = NoConfig
    /\ passed = NoArguments
    /\ html = NoHtml
    /\ bundle = NoBundle
    /\ packageFile = NoPackageFile
    /\ pass2 = NoPass2
    /\ error = "none"

-----------------------------------------------------------------------------
(* Inputs of a build run *)

PackageJsonObjects ==
    {[kind |-> "object", path |-> p, copyPackageName |-> n, copyDependencies |-> d] :
        p \in {Undefined, ""}, n \in {Undefined, "false"}, d \in {Undefined, "false"}}

PackageJsonOptions == {OmittedPackageJson, FalsePackageJson} \cup PackageJsonObjects

UserPath(name) == JoinPath("src", "extra", UnitFile(name, "ts"))

\* a user configuration that sets every field closeBundle forces, to other values
ConflictingUserConfig ==
    [configFile |-> "vite.node.config.ts", ssrTarget |-> "webworker",
     emptyOutDir |-> "true", buildSsr |-> "false", outDir |-> "lib",
     input |-> <<UserPath("main")>>, format |-> "es", preserveModules |-> "false",
     preserveModulesRoot |-> "lib", sourcemap |-> "true"]

\* a user configuration whose input list is longer than any recorded list
LongInputUserConfig ==
    [EmptyUserConfig EXCEPT
        !.input = [i \in 1..(MaxUnits + 1) |-> UserPath(UnitNames[1])],
        !.sourcemap = "true"]

BuildNodeJsFilesOptions ==
    {OmittedBuildNodeJsFiles,
     [kind |-> "false", cfg |-> EmptyUserConfig],
     [kind |-> "object", cfg |-> ConflictingUserConfig],
     [kind |-> "object", cfg |-> LongInputUserConfig]}

\* the options of a build run
RunOptions ==
    {[nodesDirectory |-> nd, packageName |-> pn, packageJson |-> pj,
      silent |-> Undefined, buildNodeJsFiles |-> b] :
        nd \in {Undefined, ""}, pn \in {Undefined, "pkg-b"},
        pj \in PackageJsonOptions, b \in BuildNodeJsFilesOptions}

Dep(name, range) == [name |-> name, range |-> range]

PackageFiles ==
    {ParsedFile("pkg-a", MapOf({Dep("x", "1.0.0")}), NoMap),
     ParsedFile("pkg-a", NoMap, MapOf({Dep("vite", "^5.0.0")})),
     UnreadableFile}

ValidTs == Dir({"html", "ts"}, {})
ValidJs == Dir({"html", "js"}, {})
HtmlOnly == Dir({"html"}, {})

\* the nodes roots of a build run: every unit valid; the first unit valid and
\* the second without a logic file; one unit, without a logic file
RunRoots ==
    {DirRoot([i \in 1..MaxUnits |-> IF i = 2 THEN ValidJs ELSE ValidTs]),
     DirRoot(<<ValidTs, HtmlOnly>>),
     DirRoot(<<HtmlOnly>>),
     DirRoot(<<Dir({"ts"}, {})>>)}

HostAssetsDirs == {Undefined, "resources", "assets"}

OutputOptions ==
    {[dir |-> "dist", file |-> NoFile],
     [dir |-> "build", file |-> NoFile],
     [dir |-> Undefined, file |-> [dir |-> "out", base |-> "main.js"]],
     [dir |-> Undefined, file |-> NoFile]}

Attr(opener, segments) ==
    <<opener>> \o segments \o <<"x.js", Quote>>

\* the asset reference Vite emits under base /resources/nodes/
DuplicatedForm == <<"/", "resources", "/", "nodes", "/", "resources", "/">>

RunMarkups ==
    {Attr("src=\"", DuplicatedForm),
     Attr("href=\"", <<"/", "resources", "/", "pkg-a", "/">>) \o Attr("src=\"", <<>>)}

\* pass 1 as the README lays its output out: <unit>/<unit>.html for every
\* entry point, then one chunk per entry point under resources/
Pass1Bundle ==
    LET subdirs == Subdirs(scanned.contents)
    IN IF configResult.kind = "config"
       THEN [i \in 1..Len(subdirs) |->
                [type |-> "asset",
                 fileName |-> <<subdirs[i].name, "/", subdirs[i].name, ".html">>]]
            \o [i \in 1..Len(subdirs) |->
                [type |-> "chunk",
                 fileName |-> <<"resources", "/", subdirs[i].name, ".js">>]]
       ELSE <<[type |-> "asset", fileName |-> <<"index", ".html">>]>>

\* an entry point of pass 1 that is not on disk: pass 1 cannot resolve it
UnresolvedEntry ==
    /\ configResult.kind = "config"
    /\ \E i \in 1..Len(Subdirs(scanned.contents)) :
          LET dirent == Subdirs(scanned.contents)[i]
          IN UnitFile(dirent.name, "html") \notin Files(dirent)

-----------------------------------------------------------------------------
(* A build run: the host creates the plugin, calls config, hands every     *)
(* emitted markup to transformIndexHtml, calls writeBundle when pass 1 has *)
(* written its output and closeBundle after that.  An error thrown by any  *)
(* step aborts the run.                                                    *)

Create ==
    /\ pc = "new"
    /\ \E opt \in RunOptions, file \in PackageFiles : nodeRedPlugin(opt, file)

Configure ==
    \E a \in HostAssetsDirs, command \in {"build", "serve"}, root \in RunRoots :
        config(a, command, root)

Transform == html.passes = 0 /\ \E h \in RunMarkups : transformIndexHtml(h)

Pass1Fails ==
    /\ pc = "configured"
    /\ UnresolvedEntry
    /\ Abort("UnresolvedEntry")
    /\ UNCHANGED <<defaultOptions, pluginOptions, referencePackageJson, nodeJsFiles,
                   outDir, scanned, configResult, passed, html, bundle,
                   packageFile, pass2>>

WriteBundle ==
    /\ ~UnresolvedEntry
    /\ \E o \in OutputOptions : writeBundle(o, Pass1Bundle)

WriteFileSettles == \E ok \in BOOLEAN : writeFileSettles(ok)

CloseBundle == closeBundle

ViteBuildSettles == \E ok \in BOOLEAN : viteBuildSettles(ok)

Next ==
    \/ Create
    \/ Configure
    \/ Transform
    \/ Pass1Fails
    \/ WriteBundle
    \/ WriteFileSettles
    \/ CloseBundle
    \/ ViteBuildSettles

Spec == Init /\ [][Next]_vars

-----------------------------------------------------------------------------
(* The config step alone, over every nodes root of up to MaxUnits entries: *)
(* each entry is absent, a plain file, or a directory holding any of       *)
(* <d>.html, <d>.ts, <d>.js (or <d>.html beside a directory named <d>.ts). *)

ScanOptions ==
    {[NoOptions EXCEPT !.nodesDirectory = nd, !.silent = quiet] :
        nd \in {Undefined, "src/nodes", ""}, quiet \in {Undefined, "true"}}

EntryStates ==
    {Absent, PlainFile} \cup {Dir(files, {}) : files \in SUBSET Exts}
    \cup {Dir({"html"}, {"ts"})}

ScanRoots ==
    {MissingRoot, FileRoot} \cup {DirRoot(f) : f \in [1..MaxUnits -> EntryStates]}

CreateForScan ==
    /\ pc = "new"
    /\ \E opt \in ScanOptions : nodeRedPlugin(opt, ParsedFile("pkg-a", NoMap, NoMap))

Scan ==
    \E a \in HostAssetsDirs, command \in {"build", "serve"}, root \in ScanRoots :
        config(a, command, root)

NextScan == CreateForScan \/ Scan

SpecScan == Init /\ [][NextScan]_vars

-----------------------------------------------------------------------------
(* transformIndexHtml over every markup of up to MaxAttrs attributes, each *)
(* src=", href=" or another attribute, its value a path of up to           *)
(* MaxSegments segments; the result may go through the hook again.         *)

RewriteOptions ==
    {NoOptions,
     [NoOptions EXCEPT !.packageName = "pkg-b",
                       !.packageJson = [OmittedPackageJson EXCEPT
                                           !.kind = "object", !.path = ""]]}

SegTokens == {"resources", "nodes", "pkg-a"}

RECURSIVE PathTokens(_)
\* the text /s1/s2/.../ of the segments s1, s2, ...
PathTokens(segments) ==
    IF segments = <<>> THEN <<"/">>
    ELSE PathTokens(SubSeq(segments, 1, Len(segments) - 1))
         \o <<segments[Len(segments)], "/">>

AttrValues ==
    {<<>>} \cup {PathTokens(segments) :
                    segments \in UNION {[1..n -> SegTokens] : n \in 0..MaxSegments}}

Attrs == {Attr(opener, v) : opener \in {"src=\"", "href=\"", "data-x=\""}, v \in AttrValues}

RECURSIVE Concat(_)
Concat(chunks) == IF chunks = <<>> THEN <<>> ELSE Head(chunks) \o Concat(Tail(chunks))

Markups == {Concat(chunks) : chunks \in UNION {[1..n -> Attrs] : n \in 0..MaxAttrs}}

CreateForRewrite ==
    /\ pc = "new"
    /\ \E opt \in RewriteOptions :
          nodeRedPlugin(opt, ParsedFile("pkg-a", NoMap, NoMap))

ConfigureOne == config(Undefined, "build", DirRoot(<<ValidTs>>))

TransformEmitted == html.passes = 0 /\ \E h \in Markups : transformIndexHtml(h)

TransformAgain == html.passes \in 1..(MaxPasses - 1) /\ transformIndexHtml(html.out)

NextRewrite == CreateForRewrite \/ ConfigureOne \/ TransformEmitted \/ TransformAgain

SpecRewrite == Init /\ [][NextRewrite]_vars

-----------------------------------------------------------------------------
(* writeBundle over every bundle of up to MaxAssets entries.               *)

BundleDirs == {<<>>, <<"alpha", "/">>, <<"beta", "/">>, <<"a", ".html", "/">>}

BundleBases ==
    {<<"alpha", ".html">>, <<"beta", ".html">>, <<"alpha", ".js">>,
     <<"a", ".html", ".html">>}

BundleEntries ==
    {[type |-> t, fileName |-> dir \o base] :
        t \in {"asset", "chunk"}, dir \in BundleDirs, base \in BundleBases}

\* the keys of a bundle are its file names: no two entries share one
Bundles ==
    {b \in UNION {[1..n -> BundleEntries] : n \in 0..MaxAssets} :
        \A i, j \in 1..Len(b) : b[i].fileName = b[j].fileName => i = j}

CreateForEmit ==
    /\ pc = "new"
    /\ nodeRedPlugin(NoOptions, ParsedFile("pkg-a", NoMap, NoMap))

EmitBundle == \E entries \in Bundles : writeBundle([dir |-> "dist", file |-> NoFile], entries)

NextEmit == CreateForEmit \/ ConfigureOne \/ EmitBundle \/ WriteFileSettles

SpecEmit == Init /\ [][NextEmit]_vars

-----------------------------------------------------------------------------
(* nodeRedPlugin called again and again in one process, as a configuration *)
(* with several plugin instances or a reloaded configuration does; every   *)
(* call goes through the one module-level defaultOptions.                  *)

InstanceOptions ==
    {[nodesDirectory |-> nd, packageName |-> pn, packageJson |-> pj,
      silent |-> quiet, buildNodeJsFiles |-> b] :
        nd \in {Undefined, "src/nodes"}, pn \in {Undefined, "pkg-b"},
        pj \in {OmittedPackageJson, FalsePackageJson,
                [OmittedPackageJson EXCEPT !.kind = "object",
                                           !.copyPackageName = "false"]},
        quiet \in {Undefined, "true"},
        b \in {OmittedBuildNodeJsFiles,
               [kind |-> "false", cfg |-> EmptyUserConfig],
               [kind |-> "object", cfg |-> ConflictingUserConfig]}}

CreateInstance ==
    \E opt \in InstanceOptions :
        nodeRedPlugin(opt, ParsedFile("pkg-a", NoMap, NoMap))

NextInstances == CreateInstance

SpecInstances == Init /\ [][NextInstances]_vars

-----------------------------------------------------------------------------
(* What the claims speak of *)

\* a unit is valid when its directory holds <d>.html and <d>.ts or <d>.js
ValidUnit(dirent) ==
    LET has(ext) == \E e \in dirent.contents :
                        e.isFile /\ e.file.name = dirent.name /\ e.file.ext = ext
    IN dirent.isDirectory /\ has("html") /\ (has("ts") \/ has("js"))

ValidUnits(root) ==
    {root.contents[i].name : i \in {j \in 1..Len(root.contents) : ValidUnit(root.contents[j])}}

ManifestEnabled == pluginOptions.packageJson.kind # "false"

\* writeBundle reached its write: a manifest is being or has been written
ManifestWritten == packageFile.state \in {"pending", "written"}

\* writeBundle returned normally
WriteBundleReturned == pc \in {"written", "pass2", "done"} \/ error = "Pass2Failed"

-----------------------------------------------------------------------------
\* C5: when manifest writing is enabled and no package name can be resolved
\* (no explicit packageName, and no reference descriptor loaded or
\* copyPackageName false), writeBundle fails and writes no manifest; every
\* manifest that is written has a non-empty name.
C5_NoNameIsFatal ==
    /\ (/\ ManifestEnabled
        /\ ~Truthy(pluginOptions.packageName)
        /\ (~referencePackageJson.loaded
            \/ ~Truthy(pluginOptions.packageJson.copyPackageName)))
       => (packageFile.state = "absent" /\ ~WriteBundleReturned)
    /\ packageFile.state # "absent" => packageFile.pkg.name \notin {"", Undefined}

-----------------------------------------------------------------------------
\* C6: with a reference descriptor loaded, copyPackageName and copyDependencies
\* enabled, the written manifest has the reference's name and its dependencies
\* and devDependencies maps verbatim, an empty map for one that is absent; with
\* copyDependencies disabled or no reference descriptor loaded, the written
\* manifest has neither field.
C6_ReferenceCopied ==
    ManifestWritten =>
        /\ (/\ referencePackageJson.loaded
            /\ pluginOptions.packageJson.copyPackageName = "true"
            /\ pluginOptions.packageJson.copyDependencies = "true")
           => /\ packageFile.pkg.name = referencePackageJson.name
              /\ packageFile.pkg.dependencies =
                     [has |-> TRUE, map |-> referencePackageJson.dependencies.map]
              /\ packageFile.pkg.devDependencies =
                     [has |-> TRUE, map |-> referencePackageJson.devDependencies.map]
        /\ (\/ ~referencePackageJson.loaded
            \/ pluginOptions.packageJson.copyDependencies = "false")
           => /\ ~packageFile.pkg.dependencies.has
              /\ ~packageFile.pkg.devDependencies.has

\* a manifest written from a reference that has dependencies and no devDependencies
C6_Witness ==
    /\ packageFile.state = "written"
    /\ referencePackageJson.loaded
    /\ pluginOptions.packageJson.copyPackageName = "true"
    /\ pluginOptions.packageJson.copyDependencies = "true"
    /\ referencePackageJson.dependencies.map # {}
    /\ ~referencePackageJson.devDependencies.has
    /\ packageFile.pkg.name = "pkg-a"

-----------------------------------------------------------------------------
\* C8: pass 2 starts at most once, and only after writeBundle has returned with
\* its manifest write settled; the run is not finished while pass 2 is running.
C8_Pass2AfterWriteBundle ==
    /\ pass2.runs <= 1
    /\ pass2.state # "none" =>
          /\ pass2.runs = 1
          /\ bundle.handed
          /\ WriteBundleReturned
          /\ IF ManifestEnabled THEN packageFile.state = "written"
             ELSE packageFile.state = "absent"
    /\ pc = "done" => pass2.state \in {"none", "returned"}

\* a run that wrote its manifest, ran pass 2 and finished
C8_Witness ==
    /\ pc = "done"
    /\ pass2.state = "returned"
    /\ pass2.runs = 1
    /\ packageFile.state = "written"

-----------------------------------------------------------------------------
\* C9: when buildNodeJsFiles is a configuration object, the configuration given
\* to pass 2 has the forced values for ssr target, build.ssr, outDir (pass 1's),
\* emptyOutDir, format, preserveModules and input (exactly the recorded
\* runtime-logic paths), whatever the user object holds.
C9_ForcedSettingsWin ==
    (pass2.state # "none" /\ pluginOptions.buildNodeJsFiles.kind = "object") =>
        /\ pass2.config.ssrTarget = "node"
        /\ pass2.config.buildSsr = "true"
        /\ pass2.config.outDir = ResolveOutDir(bundle.outputOptions)
        /\ pass2.config.emptyOutDir = "false"
        /\ pass2.config.format = "cjs"
        /\ pass2.config.preserveModules = "true"
        /\ pass2.config.input = nodeJsFiles

-----------------------------------------------------------------------------
\* C10: when buildNodeJsFiles is false, or the scan found no valid unit, pass 2
\* never starts; with buildNodeJsFiles false and every scanned unit valid, a
\* finished run has no pass 2 and a written manifest that maps every unit to
\* its predicted logic file.
C10_NoPass2WithoutUnits ==
    /\ (pluginOptions.buildNodeJsFiles.kind = "false" \/ ValidUnits(scanned) = {})
       => pass2.state = "none"
    /\ (/\ pc = "done"
        /\ pluginOptions.buildNodeJsFiles.kind = "false"
        /\ configResult.kind = "config"
        /\ ManifestEnabled)
       => /\ packageFile.state = "written"
          /\ \A d \in ValidUnits(scanned) :
                /\ <<d>> \in DOMAIN packageFile.pkg.nodes
                /\ packageFile.pkg.nodes[<<d>>] = <<d, "/", d, ".js">>

-----------------------------------------------------------------------------
\* C1: the entry-point mapping config returns has a key for every valid unit of
\* the scanned nodes root and for no other subdirectory.
C1_EntryPointsAreValidUnits ==
    configResult.kind = "config" => DOMAIN configResult.input = ValidUnits(scanned)

-----------------------------------------------------------------------------
(* The rewrite the Asset Path Rewriter is specified to perform: an         *)
(* attribute src= or href= whose value starts with                         *)
(* /resources/<nodes-root-name>/resources/ has that prefix replaced by     *)
(* /resources/<package-name>/; nothing else changes.                       *)

Duplicated(h, nodesRootName) ==
    /\ Len(h) >= 8
    /\ h[1] \in {"src=\"", "href=\""}
    /\ SubSeq(h, 2, 8) = <<"/", "resources", "/", nodesRootName, "/", "resources", "/">>

RECURSIVE Collapsed(_, _, _)
Collapsed(h, nodesRootName, packageName) ==
    IF h = <<>> THEN <<>>
    ELSE IF Duplicated(h, nodesRootName)
    THEN <<h[1], "/", "resources", "/">> \o NameTokens(packageName) \o <<"/">>
         \o Collapsed(SubSeq(h, 9, Len(h)), nodesRootName, packageName)
    ELSE <<h[1]>> \o Collapsed(Tail(h), nodesRootName, packageName)

\* the positions of h where an attribute src= or href= opens
Openers(h) == {i \in 1..Len(h) : h[i] \in {"src=\"", "href=\""}}

DuplicatedAt(h, i) == Duplicated(SubSeq(h, i, Len(h)), pluginOptions.nodesDirectory)

\* C2: transformIndexHtml is idempotent: applied to its own result it returns
\* that result unchanged.
C2_RewriteIdempotent == html.passes >= 2 => html.out = html.in

\* C3: in markup whose src= and href= attributes all have the duplicated form,
\* every such prefix becomes /resources/<package-name>/ and the rest is kept.
C3_DuplicatedFormCollapsed ==
    (/\ html.passes = 1
     /\ Openers(html.in) # {}
     /\ \A i \in Openers(html.in) : DuplicatedAt(html.in, i))
    => html.out = Collapsed(html.in, pluginOptions.nodesDirectory, html.packageName)

\* C4: markup in which no src= or href= attribute has the duplicated form is
\* returned unchanged.
C4_OtherAttributesUntouched ==
    (/\ html.passes = 1
     /\ \A i \in Openers(html.in) : ~DuplicatedAt(html.in, i))
    => html.out = html.in

-----------------------------------------------------------------------------
\* C7: the node mapping of the written manifest has exactly one entry per
\* emitted asset whose file name ends in .html and no other: the key is the
\* file name's stem, the value the file name with its trailing .html replaced
\* by .js.
HtmlAssets ==
    {bundle.entries[i].fileName :
        i \in {j \in 1..Len(bundle.entries) :
                  /\ bundle.entries[j].type = "asset"
                  /\ bundle.entries[j].fileName[Len(bundle.entries[j].fileName)] = ".html"}}

\* the base name of f without its final extension
Stem(f) ==
    LET slashes == {i \in 1..Len(f) : f[i] = "/"}
        start == IF slashes = {} THEN 1 ELSE 1 + CHOOSE i \in slashes : \A j \in slashes : j <= i
    IN SubSeq(f, start, Len(f) - 1)

WithJsExtension(f) == [f EXCEPT ![Len(f)] = ".js"]

C7_NodeMappingFromHtmlAssets ==
    ManifestWritten =>
        /\ DOMAIN packageFile.pkg.nodes = {Stem(f) : f \in HtmlAssets}
        /\ Cardinality(DOMAIN packageFile.pkg.nodes) = Cardinality(HtmlAssets)
        /\ \A f \in HtmlAssets : packageFile.pkg.nodes[Stem(f)] = WithJsExtension(f)

-----------------------------------------------------------------------------
\* the output directory pass 2 writes to: build.outDir of the configuration it
\* is given, Vite's default when that is undefined
Pass2OutDir ==
    IF pass2.config.outDir = Undefined THEN "dist" ELSE pass2.config.outDir

\* C11: whenever pass 2 runs, its output directory is the output directory of
\* pass 1, in every option combination (also with packageJson false and a
\* pass-1 output directory other than the default).
C11_Pass2OutDirIsPass1s ==
    pass2.state # "none" => Pass2OutDir = ResolveOutDir(bundle.outputOptions)

-----------------------------------------------------------------------------
\* C13: in a run that writes a manifest, the package name transformIndexHtml
\* puts into the asset references is the name of the written manifest.
C13_RewriterUsesManifestName ==
    (ManifestWritten /\ html.passes >= 1) => html.packageName = packageFile.pkg.name

-----------------------------------------------------------------------------
\* C14: after config, nodeJsFiles holds one path per valid unit, in scan order,
\* none for an invalid unit, and every path is a file the scan found.
C14_LogicPathsAreValidUnits ==
    configResult.kind = "config" =>
        LET valid == SelectSeq(scanned.contents, ValidUnit)
        IN /\ Len(nodeJsFiles) = Len(valid)
           /\ \A i \in 1..Len(nodeJsFiles) :
                 /\ i <= Len(valid)
                 /\ nodeJsFiles[i].dir = valid[i].name
                 /\ \E e \in valid[i].contents :
                       e.isFile /\ e.file = nodeJsFiles[i].file

\* the options of the instance with silent switched off
NotSilent(options) == [options EXCEPT !.silent = "false"]

\* C12: silent suppresses warnings only: whenever config would throw on the
\* host's settings, command and nodes root with silent off (for one, a host
\* assetsDir other than "resources"), the call that was made threw as well,
\* whatever silent was.
C12_SilentKeepsConfigurationErrors ==
    configResult.kind # "none" =>
        (ConfigError(NotSilent(pluginOptions), passed.assetsDir, passed.command,
                     scanned) # "none"
            => configResult.kind = "throw")

\* the options of an instance hold the documented default of every option,
\* and of every packageJson setting, that the call omitted
DefaultsWhereOmitted(opt, options) ==
    /\ opt.nodesDirectory = Undefined => options.nodesDirectory = "nodes"
    /\ opt.packageName = Undefined => options.packageName = ""
    /\ opt.silent = Undefined => options.silent = "false"
    /\ opt.buildNodeJsFiles.kind = Undefined => options.buildNodeJsFiles.kind = "true"
    /\ opt.packageJson.kind = Undefined =>
           options.packageJson =
               [kind |-> "object", path |-> "package.json",
                copyPackageName |-> "true", copyDependencies |-> "true"]
    /\ opt.packageJson.kind = "object" =>
           /\ options.packageJson.kind = "object"
           /\ opt.packageJson.path = Undefined =>
                  options.packageJson.path = "package.json"
           /\ opt.packageJson.copyPackageName = Undefined =>
                  options.packageJson.copyPackageName = "true"
           /\ opt.packageJson.copyDependencies = Undefined =>
                  options.packageJson.copyDependencies = "true"

\* C15: plugin instances are isolated: after any sequence of nodeRedPlugin
\* calls the shared defaults are what the module declared, and the instance
\* the latest call made uses the documented default for every option that
\* call omitted.
C15_InstancesAreIsolated ==
    /\ defaultOptions = DefaultOptionsLiteral
    /\ pc = "created" => DefaultsWhereOmitted(passed.opt, pluginOptions)


====
